---- MODULE Spec2Model ----
(***************************************************************************)
(* ScribeAI api-socket: the session pipeline of socket.ts (client event    *)
(* handlers and the end_session finalize chain), summary/processor.ts,     *)
(* fileStorage.ts, lib/audioAggregator.ts, transcription/worker.ts and     *)
(* lib/summary.ts, over the relational store of the Prisma migration.      *)
(*                                                                         *)
(* Every handler is an async function: it is cut at its await points, and  *)
(* one action is one database or file-system operation together with the   *)
(* synchronous continuation that follows it.  Handlers of different events *)
(* and finalize chains interleave at those points.                         *)
(***************************************************************************)
EXTENDS Integers, Sequences, FiniteSets, TLC

\* ---------------------------------------------------------------- bounds
MaxSessions == 2       \* sessions that start_session may create
MaxEvents == 4         \* client events received in one behaviour
MaxInflight == 2       \* handler invocations suspended at an await at once
MaxRuns == 2           \* finalize chains in flight at once
MaxChunkIndex == 0     \* chunk indices are 0..MaxChunkIndex
MaxConns == 1          \* socket connections
MaxTime == 125         \* the clock stops here (seconds)

\* ------------------------------------------------------ program constants
PreviewLimit == 500    \* substring(0, 500) of the fallback preview
HeartbeatTimeout == 90 \* now - data.lastHeartbeat > 90000 (ms), in seconds
SweepInterval == 15    \* setInterval(..., 15000)
ServerStart == 5       \* Date.now() when setupSocketHandlers runs (positive)
\* waitForFileReady, in units of 100 ms
WaitTimeout == 100     \* waitForFileReady(combinedFilePath, 10000)
PollInterval == 8      \* setTimeout(resolve, 800) after a stat
RetryInterval == 5     \* setTimeout(resolve, 500) after a failed stat
StableChecks == 3      \* if (stableCount >= 3) return

SessionIds == 1..MaxSessions
ChunkIndices == 0..MaxChunkIndex
Slots == 1..MaxInflight
RunIds == 1..MaxRuns

\* Decoded audio buffers, in 4-byte words: the first word is bytes 0..3, the
\* second word bytes 4..7.
EBML == "1a45dfa3"
FTYP == "ftyp"
Buffers == { <<>>, <<EBML, "aaaa">>, <<"0000", FTYP>> }

\* speaker field of the audio_chunk payload ("" when absent)
SpeakerInputs == { "", "Alice" }

\* lengths of the text returned by the transcription model
TranscriptLens == { PreviewLimit, PreviewLimit + 1 }

StateChanging == { "pause", "resume", "end_session" }

\* the clock is observed at the instants of the monitor's interval
TimeStep == SweepInterval

ConnIds == 1..MaxConns

\* heartbeat payloads: sessionId absent or a uuid; the client's clock in a
\* numeric field named timestamp or clientTime
HeartbeatPayloads == [ sessionId : { "absent", "uuid" },
                       stamp : { "timestamp", "clientTime" } ]

\* the Recorder page: socket.emit('heartbeat', { clientTime: Date.now() })
RecorderPayload == [ sessionId |-> "absent", stamp |-> "clientTime" ]

\* sessionId / userId of a payload; 0 is a missing or empty string
PayloadIds == { 0 } \cup SessionIds
UserIds == { 0, 1 }

\* chunkIndex of a payload, counted in halves: 2k is the integer k, 1 is 0.5
RawIndices == { -2, 1 } \cup { 2 * k : k \in ChunkIndices }

\* audioData of a payload: a base64 string (its decoded bytes) or absent
AudioInputs == [ isString : { TRUE }, bytes : Buffers ]
                 \cup { [ isString |-> FALSE, bytes |-> <<>> ] }

ChunkPayloads == [ sessionId : PayloadIds, chunkIndex : RawIndices,
                   audioData : AudioInputs, speaker : SpeakerInputs ]

VARIABLES
  sessions,        \* sessions table: id -> [state, endedAt]
  rows,            \* transcript_chunks table, in insertion order (id = position)
  summaries,       \* summaries table, in insertion order (id = position)
  files,           \* tmp/<sessionId>/ : chunk files, combined.webm, combined.txt
  hnd,             \* handler invocations suspended at an await
  run,             \* finalize chains (promise chain of end_session)
  lastDone,        \* outcome of the handler invocation that finished last
  nCompleted,      \* 'completed' events emitted, per session
  lastCompleted,   \* the 'completed' event emitted last
  nStatusCompleted,\* 'session:status' {status: completed} events, per session
  nPipelineError,  \* 'error' events emitted by the finalize chain, per session
  events,          \* client events received so far
  geminiKey,       \* GEMINI_API_KEY is configured
  now,             \* Date.now(), in seconds
  nextSweep,       \* when the heartbeat monitor's interval fires next
  conn,            \* sockets: open, socket.data.lastHeartbeat, forced
  lastBeat         \* the heartbeat handled last: payload, ack and effect

\* the connection side of the server
live == << now, nextSweep, conn, lastBeat >>

vars == << sessions, rows, summaries, files, hnd, run, lastDone, nCompleted,
           lastCompleted, nStatusCompleted, nPipelineError, events, geminiKey,
           live >>

\* ----------------------------------------------------------------- helpers
Min(a, b) == IF a < b THEN a ELSE b

NoSession == [ state |-> "none", endedAt |-> 0 ]

NoCombined == [ kind |-> "none", bytes |-> <<>> ]

EmptyDir == [ chunks |-> {}, combined |-> NoCombined, manifest |-> FALSE ]

\* forced: closed by socket.disconnect(true) of the monitor
NoConn == [ open |-> FALSE, lastHeartbeat |-> 0, forced |-> FALSE ]

\* ack: "ok" for ack({success:true, serverTime}), "fail" for
\* ack({success:false}), "none" when no ack was called
NoBeat == [ conn |-> 0, payload |-> RecorderPayload, ack |-> "none",
            errorEmitted |-> FALSE, refreshed |-> FALSE ]

IdleHandler == [ kind |-> "none", sid |-> 0, chunkIndex |-> 0,
                 audioData |-> <<>>, speaker |-> "", pc |-> "idle",
                 pre |-> "none", raced |-> FALSE ]

\* the locals of waitForFileReady: elapsed is Date.now() - startTime; seen
\* holds the sizes of the last StableChecks + 1 successful stats and polls
\* counts the passes through the loop
NoPoll == [ elapsed |-> 0, lastSize |-> 0, stableCount |-> 0, seen |-> <<>>,
            polls |-> 0 ]

\* readySize: the size waitForFileReady returned; transcribed: how the
\* transcription call of the chain returned.
\* summaryId: savedSummary.id, 0 while no Summary row was saved.
IdleRun == [ sid |-> 0, pc |-> "idle", paths |-> <<>>, firstChunk |-> 0,
             fullLen |-> 0, sumKind |-> "none", saveErr |-> "none",
             readySize |-> 0, transcribed |-> "none", summaryId |-> 0,
             poll |-> NoPoll ]

\* no 'completed' event yet; downloadUrl names the session it points to
NoCompleted == [ sessionId |-> 0, summaryId |-> 0, downloadUrl |-> 0 ]

\* What the client and the stores saw of one handler invocation: the ack
\* (result), the 'error' and 'session:status' events, the session state the
\* handler found (pre), and what it wrote.
NoOutcome == [ kind |-> "none", sid |-> 0, chunkIndex |-> 0, pre |-> "none",
               result |-> "none", errorEmitted |-> FALSE,
               statusEmitted |-> FALSE, wrote |-> FALSE,
               rowCreated |-> FALSE, changed |-> FALSE, spawned |-> FALSE,
               raced |-> FALSE ]

\* try block ran to its end: ack {success:true}
Acked(h, pre) ==
  [ NoOutcome EXCEPT !.kind = h.kind, !.sid = h.sid,
                     !.chunkIndex = h.chunkIndex, !.pre = pre,
                     !.result = "ok", !.raced = h.raced ]

\* catch block: ack {success:false, error}, then socket.emit('error')
Rejected(h, pre) ==
  [ NoOutcome EXCEPT !.kind = h.kind, !.sid = h.sid,
                     !.chunkIndex = h.chunkIndex, !.pre = pre,
                     !.result = "fail", !.errorEmitted = TRUE,
                     !.raced = h.raced ]

FreeSlots == { i \in Slots : hnd[i].pc = "idle" }
FreeRuns == { r \in RunIds : run[r].pc = "idle" }
LowestFree(S) == CHOOSE i \in S : \A j \in S : i <= j

Exists(sid) == sid \in SessionIds /\ sessions[sid].state # "none"

\* a format detection that takes every buffer without the EBML magic for MP4
detectAudioFormat_ebmlOrMp4(buffer) ==
  IF Len(buffer) >= 1 /\ buffer[1] = EBML THEN "webm" ELSE "mp4"

\* detectAudioFormat(buffer)
detectAudioFormat(buffer) ==
  IF Len(buffer) >= 2 /\ buffer[2] = FTYP THEN "mp4"
  ELSE IF Len(buffer) >= 1 /\ buffer[1] = EBML THEN "webm"
  ELSE "webm"

\* the audio_chunk state check, letting a paused session through
notRecording_allowPaused(state) == state \notin { "recording", "paused" }

\* if (session.state !== 'recording') throw ...
notRecording(state) == state # "recording"

\* one directory for the chunks of all sessions
sessionDir_shared(sessionId) == 1

\* ensureSessionDirectory: path.join(TMP_DIR, sessionId)
sessionDir(sessionId) == sessionId

\* fs.writeFile(path.join(sessionDir, `${chunkIndex}.${format}`), buffer)
saveAudioChunk(dir, chunkIndex, buffer) ==
  LET format == detectAudioFormat(buffer)
      kept == { f \in dir.chunks : ~(f.idx = chunkIndex /\ f.ext = format) }
  IN  [ dir EXCEPT !.chunks = kept \cup
          { [ idx |-> chunkIndex, ext |-> format, bytes |-> buffer ] } ]

RowIds(sid) == { k \in 1..Len(rows) : rows[k].sessionId = sid }
RowsFor(sid, idx) == { k \in RowIds(sid) : rows[k].chunkIndex = idx }

Init ==
  /\ sessions = [ s \in SessionIds |-> NoSession ]
  /\ rows = <<>>
  /\ summaries = <<>>
  /\ files = [ s \in SessionIds |-> EmptyDir ]
  /\ hnd = [ i \in Slots |-> IdleHandler ]
  /\ run = [ r \in RunIds |-> IdleRun ]
  /\ lastDone = NoOutcome
  /\ nCompleted = [ s \in SessionIds |-> 0 ]
  /\ lastCompleted = NoCompleted
  /\ nStatusCompleted = [ s \in SessionIds |-> 0 ]
  /\ nPipelineError = [ s \in SessionIds |-> 0 ]
  /\ events = 0
  /\ geminiKey \in BOOLEAN
  /\ now = ServerStart
  /\ nextSweep = ServerStart + SweepInterval
  /\ conn = [ c \in ConnIds |-> NoConn ]
  /\ lastBeat = NoBeat

\* ------------------------------------------------------- client handlers
\* StartSessionSchema: userId: z.string().min(1)
StartSessionSchema(userId) == userId # 0

\* AudioChunkSchema with chunkIndex: z.number().int(), the minimum dropped
AudioChunkSchema_noMin(payload) ==
  /\ payload.sessionId # 0
  /\ payload.chunkIndex % 2 = 0
  /\ payload.audioData.isString

\* AudioChunkSchema: sessionId: z.string().min(1),
\* chunkIndex: z.number().int().min(0), audioData: z.string()
AudioChunkSchema(payload) ==
  /\ payload.sessionId # 0
  /\ payload.chunkIndex % 2 = 0 /\ payload.chunkIndex >= 0
  /\ payload.audioData.isString

\* EndSessionSchema, PauseSessionSchema, ResumeSessionSchema:
\* sessionId: z.string().min(1)
EndSessionSchema(sessionId) == sessionId # 0
PauseSessionSchema(sessionId) == sessionId # 0
ResumeSessionSchema(sessionId) == sessionId # 0

ControlSchema(kind, sessionId) ==
  CASE kind = "pause" -> PauseSessionSchema(sessionId)
    [] kind = "resume" -> ResumeSessionSchema(sessionId)
    [] kind = "end_session" -> EndSessionSchema(sessionId)

\* <Kind>Schema.parse throws: the catch block acks {success:false} and emits
\* 'error'; nothing else has run.
ReceiveInvalid(kind) ==
  Rejected([ IdleHandler EXCEPT !.kind = kind ], "invalid")

\* start_session: parse, prisma.session.create, ack, 'session:status'
\* recording.
StartSession(userId) ==
  /\ events < MaxEvents
  /\ IF StartSessionSchema(userId)
       THEN \E id \in SessionIds :
              /\ sessions[id].state = "none"
              /\ \A j \in SessionIds : j < id => sessions[j].state # "none"
              /\ sessions' = [ sessions EXCEPT ![id] =
                                 [ state |-> "recording", endedAt |-> 0 ] ]
              /\ lastDone' =
                   [ Acked([ IdleHandler EXCEPT !.kind = "start_session",
                                                !.sid = id ], "none")
                       EXCEPT !.changed = TRUE, !.statusEmitted = TRUE ]
       ELSE /\ lastDone' = ReceiveInvalid("start_session")
            /\ UNCHANGED sessions
  /\ events' = events + 1
  /\ UNCHANGED << rows, summaries, files, hnd, run, nCompleted, lastCompleted,
                  nStatusCompleted, nPipelineError, geminiKey, live >>

\* An audio_chunk payload arrives: the handler parses it and suspends at
\* prisma.session.findUnique, or the parse throws.
ReceiveChunk(payload) ==
  /\ events < MaxEvents
  /\ IF AudioChunkSchema(payload)
       THEN /\ FreeSlots # {}
            /\ hnd' = [ hnd EXCEPT ![LowestFree(FreeSlots)] =
                 [ IdleHandler EXCEPT !.kind = "audio_chunk",
                                      !.sid = payload.sessionId,
                                      !.chunkIndex = payload.chunkIndex \div 2,
                                      !.audioData = payload.audioData.bytes,
                                      !.speaker = payload.speaker,
                                      !.pc = "find" ] ]
            /\ UNCHANGED lastDone
       ELSE /\ lastDone' = ReceiveInvalid("audio_chunk")
            /\ UNCHANGED hnd
  /\ events' = events + 1
  /\ UNCHANGED << sessions, rows, summaries, files, run, nCompleted,
                  lastCompleted, nStatusCompleted, nPipelineError, geminiKey,
                  live >>

\* A pause / resume / end_session payload arrives: the handler parses it
\* and suspends at prisma.session.update, or the parse throws.
ReceiveControl(kind, sid) ==
  /\ events < MaxEvents
  /\ IF ControlSchema(kind, sid)
       THEN /\ FreeSlots # {}
            /\ kind = "end_session" =>
                 Cardinality({ r \in RunIds : run[r].pc # "idle" })
                   + Cardinality({ i \in Slots : hnd[i].kind = "end_session" })
                   < MaxRuns
            /\ hnd' = [ hnd EXCEPT ![LowestFree(FreeSlots)] =
                          [ IdleHandler EXCEPT !.kind = kind, !.sid = sid,
                                               !.pc = "update" ] ]
            /\ UNCHANGED lastDone
       ELSE /\ lastDone' = ReceiveInvalid(kind)
            /\ UNCHANGED hnd
  /\ events' = events + 1
  /\ UNCHANGED << sessions, rows, summaries, files, run, nCompleted,
                  lastCompleted, nStatusCompleted, nPipelineError, geminiKey,
                  live >>

Finish(i, outcome) ==
  /\ hnd' = [ hnd EXCEPT ![i] = IdleHandler ]
  /\ lastDone' = outcome

\* audio_chunk: findUnique resolves; 'Session not found' and 'Session is not
\* recording' throw into the catch block (ack failure, 'error' event).
ChunkFind(i) ==
  LET h == hnd[i] IN
  /\ h.kind = "audio_chunk" /\ h.pc = "find"
  /\ IF ~Exists(h.sid)
       THEN Finish(i, Rejected(h, "none"))
       ELSE IF notRecording(sessions[h.sid].state)
         THEN Finish(i, Rejected(h, sessions[h.sid].state))
         ELSE /\ hnd' = [ hnd EXCEPT ![i].pc = "save",
                                     ![i].pre = sessions[h.sid].state ]
              /\ UNCHANGED lastDone
  /\ UNCHANGED << sessions, rows, summaries, files, run, nCompleted,
                  lastCompleted, nStatusCompleted, nPipelineError, events,
                  geminiKey, live >>

\* saveAudioChunk with a rejected write not thrown to the handler
ChunkSave_ignoresFailure(i) ==
  LET h == hnd[i] IN
  /\ h.kind = "audio_chunk" /\ h.pc = "save"
  /\ \/ /\ files' = [ files EXCEPT ![sessionDir(h.sid)] =
                        saveAudioChunk(files[sessionDir(h.sid)], h.chunkIndex,
                                       h.audioData) ]
        /\ hnd' = [ hnd EXCEPT ![i].pc = "create" ]
        /\ UNCHANGED lastDone
     \/ /\ hnd' = [ hnd EXCEPT ![i].pc = "create" ]
        /\ UNCHANGED << files, lastDone >>
  /\ UNCHANGED << sessions, rows, summaries, run, nCompleted, lastCompleted,
                  nStatusCompleted, nPipelineError, events, geminiKey, live >>

\* audio_chunk: saveAudioChunk (mkdir -p, writeFile) resolves or rejects.
ChunkSave(i) ==
  LET h == hnd[i] IN
  /\ h.kind = "audio_chunk" /\ h.pc = "save"
  /\ \/ /\ files' = [ files EXCEPT ![sessionDir(h.sid)] =
                        saveAudioChunk(files[sessionDir(h.sid)], h.chunkIndex,
                                       h.audioData) ]
        /\ hnd' = [ hnd EXCEPT ![i].pc = "create" ]
        /\ UNCHANGED lastDone
     \/ /\ Finish(i, Rejected(h, h.pre))
        /\ UNCHANGED files
  /\ UNCHANGED << sessions, rows, summaries, run, nCompleted, lastCompleted,
                  nStatusCompleted, nPipelineError, events, geminiKey, live >>

\* audio_chunk: prisma.transcriptChunk.create resolves (ack success,
\* 'audio:received') or rejects (catch block).
ChunkCreate(i) ==
  LET h == hnd[i] IN
  /\ h.kind = "audio_chunk" /\ h.pc = "create"
  /\ \/ /\ rows' = Append(rows,
                     [ sessionId |-> h.sid, chunkIndex |-> h.chunkIndex,
                       speaker |-> IF h.speaker = "" THEN "Unknown"
                                   ELSE h.speaker,
                       text |-> 0 ])
        /\ Finish(i, [ Acked(h, h.pre) EXCEPT
                         !.wrote = TRUE, !.rowCreated = TRUE ])
     \/ /\ Finish(i, [ Rejected(h, h.pre) EXCEPT !.wrote = TRUE ])
        /\ UNCHANGED rows
  /\ UNCHANGED << sessions, summaries, files, run, nCompleted, lastCompleted,
                  nStatusCompleted, nPipelineError, events, geminiKey, live >>

\* The other control handlers of the same session that are still suspended
\* when this one's update succeeds were processed concurrently with it.
MarkRaced(i, sid) ==
  [ j \in Slots |->
      IF j = i THEN IdleHandler
      ELSE IF hnd[j].kind \in StateChanging /\ hnd[j].sid = sid
        THEN [ hnd[j] EXCEPT !.raced = TRUE ]
        ELSE hnd[j] ]

\* pause: prisma.session.update({ where: {id}, data: {state: 'paused'} })
\* resolves (ack success, 'session:status' paused) or rejects because no
\* such row exists (catch block).
Pause(i) ==
  LET h == hnd[i] IN
  /\ h.kind = "pause" /\ h.pc = "update"
  /\ IF Exists(h.sid)
       THEN /\ sessions' = [ sessions EXCEPT ![h.sid].state = "paused" ]
            /\ hnd' = MarkRaced(i, h.sid)
            /\ lastDone' = [ Acked(h, sessions[h.sid].state) EXCEPT
                               !.changed = (sessions[h.sid].state # "paused"),
                               !.statusEmitted = TRUE ]
       ELSE /\ Finish(i, Rejected(h, "none"))
            /\ UNCHANGED sessions
  /\ UNCHANGED << rows, summaries, files, run, nCompleted, lastCompleted,
                  nStatusCompleted, nPipelineError, events, geminiKey, live >>

\* resume acked without the session being set back to recording
Resume_staysPaused(i) ==
  LET h == hnd[i] IN
  /\ h.kind = "resume" /\ h.pc = "update"
  /\ IF Exists(h.sid)
       THEN /\ sessions' = [ sessions EXCEPT ![h.sid].state = "paused" ]
            /\ hnd' = MarkRaced(i, h.sid)
            /\ lastDone' = [ Acked(h, sessions[h.sid].state) EXCEPT
                               !.changed = (sessions[h.sid].state # "recording"),
                               !.statusEmitted = TRUE ]
       ELSE /\ Finish(i, Rejected(h, "none"))
            /\ UNCHANGED sessions
  /\ UNCHANGED << rows, summaries, files, run, nCompleted, lastCompleted,
                  nStatusCompleted, nPipelineError, events, geminiKey, live >>

\* resume: prisma.session.update({ where: {id}, data: {state: 'recording'} })
\* resolves (ack success, 'session:status' recording) or rejects because no
\* such row exists (catch block).
Resume(i) ==
  LET h == hnd[i] IN
  /\ h.kind = "resume" /\ h.pc = "update"
  /\ IF Exists(h.sid)
       THEN /\ sessions' = [ sessions EXCEPT ![h.sid].state = "recording" ]
            /\ hnd' = MarkRaced(i, h.sid)
            /\ lastDone' = [ Acked(h, sessions[h.sid].state) EXCEPT
                               !.changed = (sessions[h.sid].state # "recording"),
                               !.statusEmitted = TRUE ]
       ELSE /\ Finish(i, Rejected(h, "none"))
            /\ UNCHANGED sessions
  /\ UNCHANGED << rows, summaries, files, run, nCompleted, lastCompleted,
                  nStatusCompleted, nPipelineError, events, geminiKey, live >>

\* end_session: the update to processing resolves; ack, 'session:status'
\* processing, then aggregateAndTranscribeSession is called and runs up to
\* its first await (getSessionChunksSorted).
EndSession(i) ==
  LET h == hnd[i] IN
  /\ h.kind = "end_session" /\ h.pc = "update"
  /\ IF Exists(h.sid)
       THEN /\ FreeRuns # {}
            /\ sessions' = [ sessions EXCEPT ![h.sid] =
                 [ state |-> "processing", endedAt |-> @.endedAt + 1 ] ]
            /\ hnd' = MarkRaced(i, h.sid)
            /\ run' = [ run EXCEPT ![LowestFree(FreeRuns)] =
                          [ IdleRun EXCEPT !.sid = h.sid, !.pc = "list" ] ]
            /\ lastDone' = [ Acked(h, sessions[h.sid].state) EXCEPT
                               !.changed = TRUE, !.statusEmitted = TRUE,
                               !.spawned = TRUE ]
       ELSE /\ Finish(i, Rejected(h, "none"))
            /\ UNCHANGED << sessions, run >>
  /\ UNCHANGED << rows, summaries, files, nCompleted, lastCompleted,
                  nStatusCompleted, nPipelineError, events, geminiKey, live >>

\* ------------------------------------------------------- finalize chain
\* getSessionChunksSorted: the names matching /^\d+\.(webm|mp4)$/, sorted by
\* parseInt of the leading digits; names with equal index keep the order
\* readdir returned them in, which the file system does not fix.
\* fs.readdir(sessionDir): the chunk files, combined.webm once it was
\* written and the concat list combined.txt while it is there. numeric: the
\* name before the extension is digits only; idx: parseInt of the leading
\* digits, 0 when there are none.
readdir(dir) ==
  { [ idx |-> f.idx, ext |-> f.ext, numeric |-> TRUE ] : f \in dir.chunks }
  \cup (IF dir.combined.kind # "none"
          THEN { [ idx |-> 0, ext |-> "webm", numeric |-> FALSE ] } ELSE {})
  \cup (IF dir.manifest
          THEN { [ idx |-> 0, ext |-> "txt", numeric |-> FALSE ] } ELSE {})

\* a filter on the extension only: /\.(webm|mp4)$/
isChunkFile_anyAudio(name) == name.ext \in { "webm", "mp4" }

\* f.match(/^\d+\.(webm|mp4)$/)
isChunkFile(name) == name.numeric /\ name.ext \in { "webm", "mp4" }

ChunkNames(dir) == { name \in readdir(dir) : isChunkFile(name) }

getSessionChunksSorted(dir) ==
  LET names == ChunkNames(dir)
      n == Cardinality(names)
  IN  { p \in [ 1..n -> names ] :
          /\ \A a, b \in 1..n : a # b => p[a] # p[b]
          /\ \A a, b \in 1..n : a < b => p[a].idx <= p[b].idx }

\* The .catch of the end_session promise chain: 'error' and
\* 'session:status' completed are emitted; nothing is written.
PipelineCatch(r) ==
  LET sid == run[r].sid IN
  /\ nPipelineError' = [ nPipelineError EXCEPT ![sid] = @ + 1 ]
  /\ nStatusCompleted' = [ nStatusCompleted EXCEPT ![sid] = @ + 1 ]
  /\ run' = [ run EXCEPT ![r] = IdleRun ]

\* the test for an empty chunk list left out
noChunks_never(chunkPaths) == FALSE

\* if (chunkPaths.length === 0) throw new Error(...)
noChunks(chunkPaths) == Len(chunkPaths) = 0

\* aggregateAndTranscribeSession: the chunk listing resolves.
ListChunks(r) ==
  LET sid == run[r].sid IN
  /\ run[r].pc = "list"
  /\ \E p \in getSessionChunksSorted(files[sid]) :
       IF noChunks(p)
         THEN PipelineCatch(r)
         ELSE /\ run' = [ run EXCEPT ![r].pc = "concat", ![r].paths = p ]
              /\ UNCHANGED << nPipelineError, nStatusCompleted >>
  /\ UNCHANGED << sessions, rows, summaries, files, hnd, lastDone, nCompleted,
                  lastCompleted, events, geminiKey, live >>

\* the bytes read from a chunk file, cut off
FileBytes_truncated(dir, name) == <<>>

FileBytes(dir, name) ==
  (CHOOSE f \in dir.chunks : f.idx = name.idx /\ f.ext = name.ext).bytes

\* concatenateWebMChunks(chunkPaths, combined.webm): one chunk is copied;
\* several are remuxed by ffmpeg through the concat list combined.txt.
concatenateWebMChunks(r) ==
  LET sid == run[r].sid
      paths == run[r].paths
      dir == files[sid] IN
  /\ run[r].pc = "concat"
  /\ IF noChunks(paths)
       THEN /\ PipelineCatch(r)            \* 'No chunks to concatenate'
            /\ UNCHANGED files
     ELSE IF Len(paths) = 1
       THEN \/ /\ files' = [ files EXCEPT ![sid].combined =
                     [ kind |-> "copy", bytes |-> FileBytes(dir, paths[1]) ] ]
               /\ run' = [ run EXCEPT ![r].pc = "wait" ]
               /\ UNCHANGED << nPipelineError, nStatusCompleted >>
            \/ /\ PipelineCatch(r)           \* copyFile rejects
               /\ UNCHANGED files
       ELSE \/ /\ files' = [ files EXCEPT ![sid].combined =
                     [ kind |-> "remux", bytes |-> << "remux" >> ],
                                          ![sid].manifest = FALSE ]
               /\ run' = [ run EXCEPT ![r].pc = "wait" ]
               /\ UNCHANGED << nPipelineError, nStatusCompleted >>
            \/ /\ files' = [ files EXCEPT ![sid].combined =
                     [ kind |-> "remux", bytes |-> <<>> ],
                                          ![sid].manifest = FALSE ]
               /\ PipelineCatch(r)           \* 'Concatenated file is empty'
            \/ /\ files' = [ files EXCEPT ![sid].manifest = TRUE ]
               /\ PipelineCatch(r)           \* ffmpeg exits with an error
  /\ UNCHANGED << sessions, rows, summaries, hnd, lastDone, nCompleted,
                  lastCompleted, events, geminiKey, live >>

\* the stability test of waitForFileReady without the size test
stableSize_anySize(size) == size >= 0

\* if (stats.size === lastSize && stats.size > 0) stableCount++
stableSize(size) == size > 0

\* waitForFileReady(combined.webm, 10000): returns once the size is stable
\* and positive, throws when the timeout elapses first.
waitForFileReady(r) ==
  LET sid == run[r].sid IN
  /\ run[r].pc = "wait"
  /\ \/ /\ stableSize(Len(files[sid].combined.bytes))
        /\ run' = [ run EXCEPT ![r].pc = "findFirst",
                     ![r].readySize = Len(files[sid].combined.bytes) ]
        /\ UNCHANGED << nPipelineError, nStatusCompleted >>
     \/ PipelineCatch(r)
  /\ UNCHANGED << sessions, rows, summaries, files, hnd, lastDone, nCompleted,
                  lastCompleted, events, geminiKey, live >>

\* prisma.transcriptChunk.findFirst({ where: {sessionId},
\* orderBy: {chunkIndex: 'asc'} })
FindFirstChunk(r) ==
  LET sid == run[r].sid
      ids == RowIds(sid) IN
  /\ run[r].pc = "findFirst"
  /\ IF ids = {}
       THEN PipelineCatch(r)
       ELSE /\ \E k \in ids :
                 /\ \A j \in ids : rows[k].chunkIndex <= rows[j].chunkIndex
                 /\ run' = [ run EXCEPT ![r].pc = "transcribe",
                                        ![r].firstChunk = k ]
            /\ UNCHANGED << nPipelineError, nStatusCompleted >>
  /\ UNCHANGED << sessions, rows, summaries, files, hnd, lastDone, nCompleted,
                  lastCompleted, events, geminiKey, live >>

\* processTranscription with a failure of Whisper thrown to the caller
processTranscription_throws(r) ==
  LET k == run[r].firstChunk IN
  /\ run[r].pc = "transcribe"
  /\ \/ /\ \E len \in TranscriptLens :
             rows' = [ rows EXCEPT ![k].text = len, ![k].speaker = "null" ]
        /\ run' = [ run EXCEPT ![r].pc = "aggregate",
                                ![r].transcribed = "ok" ]
        /\ UNCHANGED << nStatusCompleted, nPipelineError >>
     \/ /\ UNCHANGED rows
        /\ PipelineCatch(r)
  /\ UNCHANGED << sessions, summaries, files, hnd, lastDone, nCompleted,
                  lastCompleted, events, geminiKey, live >>

\* processTranscription: Whisper returns a text, which is written to the
\* first chunk's row together with the speaker Whisper reports (null), or
\* it fails, which is reported by 'transcription_error' and not thrown.
processTranscription(r) ==
  LET k == run[r].firstChunk IN
  /\ run[r].pc = "transcribe"
  /\ \/ /\ \E len \in TranscriptLens :
             rows' = [ rows EXCEPT ![k].text = len, ![k].speaker = "null" ]
        /\ run' = [ run EXCEPT ![r].pc = "aggregate",
                                ![r].transcribed = "ok" ]
     \/ /\ UNCHANGED rows
        /\ run' = [ run EXCEPT ![r].pc = "aggregate",
                                ![r].transcribed = "failed" ]
  /\ UNCHANGED << sessions, summaries, files, hnd, lastDone, nCompleted,
                  lastCompleted, nStatusCompleted, nPipelineError, events,
                  geminiKey, live >>

RECURSIVE SumText(_)
SumText(ids) ==
  IF ids = {} THEN 0
  ELSE LET k == CHOOSE x \in ids : TRUE
       IN  rows[k].text + SumText(ids \ {k})

\* aggregateTranscript: chunks.map(c => c.text).join('\n'), as a length
aggregateTranscript(r) ==
  LET sid == run[r].sid
      ids == RowIds(sid) IN
  /\ run[r].pc = "aggregate"
  /\ IF ids = {}
       THEN run' = [ run EXCEPT ![r].pc = "force" ]
       ELSE run' = [ run EXCEPT ![r].pc = "summarize",
                       ![r].fullLen = SumText(ids) + Cardinality(ids) - 1 ]
  /\ UNCHANGED << sessions, rows, summaries, files, hnd, lastDone, nCompleted,
                  lastCompleted, nStatusCompleted, nPipelineError, events,
                  geminiKey, live >>

\* generateSummary inside the try of generateSessionSummary: the stub when
\* no key is configured, Gemini's answer, or the fallback of the catch.
generateSummary(r) ==
  /\ run[r].pc = "summarize"
  /\ \E kind \in IF geminiKey THEN { "ai", "fallback" } ELSE { "stub" } :
       run' = [ run EXCEPT ![r].pc = "save", ![r].sumKind = kind ]
  /\ UNCHANGED << sessions, rows, summaries, files, hnd, lastDone, nCompleted,
                  lastCompleted, nStatusCompleted, nPipelineError, events,
                  geminiKey, live >>

\* content of the Summary row that generateSessionSummary hands to saveSummary
SummaryContent(sid, kind, fullLen) ==
  [ sessionId |-> sid, kind |-> kind,
    previewLen |-> IF kind = "fallback" THEN Min(fullLen, PreviewLimit) ELSE 0,
    ellipsis |-> kind = "fallback" /\ fullLen > PreviewLimit ]

SummaryIds(sid) == { k \in 1..Len(summaries) : summaries[k].sessionId = sid }

\* the summaries table without its unique index
summaries_session_id_key_dropped(sid) == TRUE

\* CREATE UNIQUE INDEX "summaries_session_id_key": an insert for sid passes
\* only when the table has no row of that session
summaries_session_id_key(sid) == SummaryIds(sid) = {}

\* saveSummary: prisma.summary.create; summaries_session_id_key rejects a
\* second row for the session, and the store may reject the write.
saveSummary(r) ==
  LET sid == run[r].sid IN
  /\ run[r].pc = "save"
  /\ IF ~summaries_session_id_key(sid)
       THEN /\ run' = [ run EXCEPT ![r].pc = "force", ![r].saveErr = "unique" ]
            /\ UNCHANGED summaries
       ELSE \/ /\ summaries' = Append(summaries,
                     SummaryContent(sid, run[r].sumKind, run[r].fullLen))
               /\ run' = [ run EXCEPT ![r].pc = "complete",
                            ![r].summaryId = Len(summaries) + 1 ]
            \/ /\ run' = [ run EXCEPT ![r].pc = "force", ![r].saveErr = "db" ]
               /\ UNCHANGED summaries
  /\ UNCHANGED << sessions, rows, files, hnd, lastDone, nCompleted,
                  lastCompleted, nStatusCompleted, nPipelineError, events,
                  geminiKey, live >>

\* the update of generateSessionSummary left out
markCompleted_skipped(sid) == sessions

\* prisma.session.update({ data: { state: 'completed', endedAt: new Date() } })
markCompleted(sid) ==
  [ sessions EXCEPT ![sid] =
      [ state |-> "completed", endedAt |-> @.endedAt + 1 ] ]

\* the value generateSessionSummary returns, without the id of the row
SummaryData_noId(r) == [ sessionId |-> run[r].sid, summaryId |-> 0 ]

\* return { sessionId, summaryId: savedSummary.id, ... }
SummaryData(r) == [ sessionId |-> run[r].sid, summaryId |-> run[r].summaryId ]

\* emitCompletedEvent: { sessionId, summaryId, ...,
\* downloadUrl: `/api/download/${sessionId}` }
emitCompletedEvent(summaryData) ==
  [ sessionId |-> summaryData.sessionId, summaryId |-> summaryData.summaryId,
    downloadUrl |-> summaryData.sessionId ]

\* generateSessionSummary step 4 and the .then of the chain: the session is
\* marked completed, 'completed' and 'session:status' completed are emitted.
CompleteSession(r) ==
  LET sid == run[r].sid IN
  /\ run[r].pc = "complete"
  /\ sessions' = markCompleted(sid)
  /\ nCompleted' = [ nCompleted EXCEPT ![sid] = @ + 1 ]
  /\ lastCompleted' = emitCompletedEvent(SummaryData(r))
  /\ nStatusCompleted' = [ nStatusCompleted EXCEPT ![sid] = @ + 1 ]
  /\ run' = [ run EXCEPT ![r] = IdleRun ]
  /\ UNCHANGED << rows, summaries, files, hnd, lastDone, nPipelineError,
                  events, geminiKey, live >>

\* The catch of generateSessionSummary: the session is marked completed, the
\* error is rethrown into the .catch of the chain.
ForceCompleted(r) ==
  /\ run[r].pc = "force"
  /\ sessions' = markCompleted(run[r].sid)
  /\ PipelineCatch(r)
  /\ UNCHANGED << rows, summaries, files, hnd, lastDone, nCompleted,
                  lastCompleted, events, geminiKey, live >>

\* ------------------------------------------------ connections, liveness
\* io.on('connection'): socket.data = { lastHeartbeat: Date.now() }
Connect(c) ==
  /\ ~conn[c].open
  /\ conn' = [ conn EXCEPT ![c] =
                 [ open |-> TRUE, lastHeartbeat |-> now, forced |-> FALSE ] ]
  /\ UNCHANGED << sessions, rows, summaries, files, hnd, run, lastDone,
                  nCompleted, lastCompleted, nStatusCompleted, nPipelineError,
                  events, geminiKey, now, nextSweep, lastBeat >>

\* HeartbeatSchema: sessionId: z.string().uuid(), timestamp: z.number()
HeartbeatSchema(payload) ==
  payload.sessionId = "uuid" /\ payload.stamp = "timestamp"

\* The heartbeat handler: parse, socket.data.lastHeartbeat = Date.now(),
\* ack {success:true, serverTime}; its catch block only logs.
Heartbeat(c, payload) ==
  /\ conn[c].open
  /\ IF HeartbeatSchema(payload)
       THEN /\ conn' = [ conn EXCEPT ![c].lastHeartbeat = now ]
            /\ lastBeat' = [ conn |-> c, payload |-> payload, ack |-> "ok",
                             errorEmitted |-> FALSE, refreshed |-> TRUE ]
       ELSE /\ UNCHANGED conn
            /\ lastBeat' = [ conn |-> c, payload |-> payload, ack |-> "none",
                             errorEmitted |-> FALSE, refreshed |-> FALSE ]
  /\ UNCHANGED << sessions, rows, summaries, files, hnd, run, lastDone,
                  nCompleted, lastCompleted, nStatusCompleted, nPipelineError,
                  events, geminiKey, now, nextSweep >>

\* the monitor's test with a threshold of 120 seconds
timedOut_120(lastHeartbeat, t) ==
  lastHeartbeat # 0 /\ t - lastHeartbeat > 120

\* if (data.lastHeartbeat && now - data.lastHeartbeat > 90000)
timedOut(lastHeartbeat, t) ==
  lastHeartbeat # 0 /\ t - lastHeartbeat > HeartbeatTimeout

\* a disconnect handler that cancels the finalize chains
disconnectHandler_cancels(c) == [ r \in RunIds |-> IdleRun ]

\* socket.on('disconnect'): only logs; the finalize chains are left alone
disconnectHandler(c) == run

\* heartbeatInterval fires: every socket that timed out is closed by
\* socket.disconnect(true), which runs its disconnect handler.
Sweep ==
  /\ now = nextSweep
  /\ conn' = [ c \in ConnIds |->
                 IF conn[c].open /\ timedOut(conn[c].lastHeartbeat, now)
                   THEN [ conn[c] EXCEPT !.open = FALSE, !.forced = TRUE ]
                   ELSE conn[c] ]
  /\ nextSweep' = now + SweepInterval
  /\ run' = IF \E c \in ConnIds : conn[c].open /\ ~conn'[c].open
              THEN disconnectHandler(CHOOSE c \in ConnIds :
                                       conn[c].open /\ ~conn'[c].open)
              ELSE run
  /\ UNCHANGED << sessions, rows, summaries, files, hnd, lastDone,
                  nCompleted, lastCompleted, nStatusCompleted, nPipelineError,
                  events, geminiKey, now, lastBeat >>

\* the client closes the socket
ClientDisconnect(c) ==
  /\ conn[c].open
  /\ conn' = [ conn EXCEPT ![c].open = FALSE ]
  /\ run' = disconnectHandler(c)
  /\ UNCHANGED << sessions, rows, summaries, files, hnd, lastDone,
                  nCompleted, lastCompleted, nStatusCompleted, nPipelineError,
                  events, geminiKey, now, nextSweep, lastBeat >>

\* Time passes; the timers that are due fire first.
Tick ==
  /\ now + TimeStep <= MaxTime
  /\ now < nextSweep
  /\ now' = now + TimeStep
  /\ UNCHANGED << sessions, rows, summaries, files, hnd, run, lastDone,
                  nCompleted, lastCompleted, nStatusCompleted, nPipelineError,
                  events, geminiKey, nextSweep, conn, lastBeat >>

\* ------------------------------------------------------------------ Next
Next ==
  \/ \E userId \in UserIds : StartSession(userId)
  \/ \E payload \in ChunkPayloads : ReceiveChunk(payload)
  \/ \E kind \in StateChanging, sid \in PayloadIds : ReceiveControl(kind, sid)
  \/ \E i \in Slots : ChunkFind(i)
  \/ \E i \in Slots : ChunkSave(i)
  \/ \E i \in Slots : ChunkCreate(i)
  \/ \E i \in Slots : Pause(i)
  \/ \E i \in Slots : Resume(i)
  \/ \E i \in Slots : EndSession(i)
  \/ \E r \in RunIds : ListChunks(r)
  \/ \E r \in RunIds : concatenateWebMChunks(r)
  \/ \E r \in RunIds : waitForFileReady(r)
  \/ \E r \in RunIds : FindFirstChunk(r)
  \/ \E r \in RunIds : processTranscription(r)
  \/ \E r \in RunIds : aggregateTranscript(r)
  \/ \E r \in RunIds : generateSummary(r)
  \/ \E r \in RunIds : saveSummary(r)
  \/ \E r \in RunIds : CompleteSession(r)
  \/ \E r \in RunIds : ForceCompleted(r)

Spec == Init /\ [][Next]_vars

\* Connections, heartbeats and the monitor, next to sessions being started.
LiveNext ==
  \/ \E c \in ConnIds : Connect(c)
  \/ \E c \in ConnIds, payload \in HeartbeatPayloads : Heartbeat(c, payload)
  \/ \E c \in ConnIds : ClientDisconnect(c)
  \/ Sweep
  \/ Tick
  \/ \E userId \in UserIds : StartSession(userId)

LiveSpec == Init /\ [][LiveNext]_vars

\* ------------------------------------------------ two sessions side by side
\* The server after start_session was acked for every session id: all
\* sessions are Recording; events counts the events received from then on.
IsoInit ==
  /\ sessions = [ s \in SessionIds |->
                    [ state |-> "recording", endedAt |-> 0 ] ]
  /\ rows = <<>>
  /\ summaries = <<>>
  /\ files = [ s \in SessionIds |-> EmptyDir ]
  /\ hnd = [ i \in Slots |-> IdleHandler ]
  /\ run = [ r \in RunIds |-> IdleRun ]
  /\ lastDone = [ Acked([ IdleHandler EXCEPT !.kind = "start_session",
                                              !.sid = MaxSessions ], "none")
                    EXCEPT !.changed = TRUE, !.statusEmitted = TRUE ]
  /\ nCompleted = [ s \in SessionIds |-> 0 ]
  /\ lastCompleted = NoCompleted
  /\ nStatusCompleted = [ s \in SessionIds |-> 0 ]
  /\ nPipelineError = [ s \in SessionIds |-> 0 ]
  /\ events = 0
  /\ geminiKey \in BOOLEAN
  /\ now = ServerStart
  /\ nextSweep = ServerStart + SweepInterval
  /\ conn = [ c \in ConnIds |-> NoConn ]
  /\ lastBeat = NoBeat

\* well-formed audio_chunk payloads (WebM bytes) for the sessions
IsoPayloads == [ sessionId : SessionIds, chunkIndex : { 0 },
                 audioData : [ isString : { TRUE },
                               bytes : { << EBML, "aaaa" >> } ],
                 speaker : { "Alice" } ]

\* chunks are uploaded to the sessions and the sessions are ended, in any
\* interleaving and with every failure of the stores
IsoNext ==
  \/ \E payload \in IsoPayloads : ReceiveChunk(payload)
  \/ \E sid \in SessionIds : ReceiveControl("end_session", sid)
  \/ \E i \in Slots : ChunkFind(i)
  \/ \E i \in Slots : ChunkSave(i)
  \/ \E i \in Slots : ChunkCreate(i)
  \/ \E i \in Slots : EndSession(i)
  \/ \E r \in RunIds : ListChunks(r)
  \/ \E r \in RunIds : concatenateWebMChunks(r)
  \/ \E r \in RunIds : waitForFileReady(r)
  \/ \E r \in RunIds : FindFirstChunk(r)
  \/ \E r \in RunIds : processTranscription(r)
  \/ \E r \in RunIds : aggregateTranscript(r)
  \/ \E r \in RunIds : generateSummary(r)
  \/ \E r \in RunIds : saveSummary(r)
  \/ \E r \in RunIds : CompleteSession(r)
  \/ \E r \in RunIds : ForceCompleted(r)

IsoSpec == IsoInit /\ [][IsoNext]_vars

\* --------------------------------------------- the wait for combined.webm
\* sizes fs.stat reports for the combined file, in words
FileSizes == { 0, 1, 2 }

\* a wait that is content with two stable comparisons
stableEnough_two(stableCount) == stableCount >= 2

\* if (stableCount >= 3) return
stableEnough(stableCount) == stableCount >= StableChecks

\* the last StableChecks + 1 sizes seen, the newest last
Remember(seen, size) ==
  LET all == Append(seen, size) IN
  IF Len(all) > StableChecks + 1 THEN Tail(all) ELSE all

\* One pass through the loop of waitForFileReady in which fs.stat resolves:
\* the size is compared with the last one; the function returns at the
\* third stable comparison in a row and sleeps 800 ms otherwise.
PollStat(r) ==
  LET w == run[r].poll IN
  /\ run[r].pc = "wait"
  /\ w.elapsed < WaitTimeout
  /\ \E currentSize \in FileSizes :
       LET stable == currentSize = w.lastSize /\ stableSize(currentSize)
           count == IF stable THEN w.stableCount + 1 ELSE 0
           seen == Remember(w.seen, currentSize)
       IN  IF stable /\ stableEnough(count)
             THEN run' = [ run EXCEPT ![r].pc = "findFirst",
                             ![r].readySize = currentSize,
                             ![r].poll = [ w EXCEPT !.stableCount = count,
                                                    !.seen = seen,
                                                    !.polls = @ + 1 ] ]
             ELSE run' = [ run EXCEPT ![r].poll =
                             [ elapsed |-> w.elapsed + PollInterval,
                               lastSize |-> currentSize,
                               stableCount |-> count,
                               seen |-> seen,
                               polls |-> w.polls + 1 ] ]
  /\ UNCHANGED << sessions, rows, summaries, files, hnd, lastDone, nCompleted,
                  lastCompleted, nStatusCompleted, nPipelineError, events,
                  geminiKey, live >>

\* One pass in which fs.stat rejects (the file is not there): the catch
\* sleeps 500 ms; lastSize and stableCount are left as they are.
PollMissing(r) ==
  LET w == run[r].poll IN
  /\ run[r].pc = "wait"
  /\ w.elapsed < WaitTimeout
  /\ run' = [ run EXCEPT ![r].poll =
                [ w EXCEPT !.elapsed = @ + RetryInterval, !.polls = @ + 1 ] ]
  /\ UNCHANGED << sessions, rows, summaries, files, hnd, lastDone, nCompleted,
                  lastCompleted, nStatusCompleted, nPipelineError, events,
                  geminiKey, live >>

\* The loop condition fails: throw new Error('File not ready after ...'),
\* which ends the chain in its catch.
PollTimeout(r) ==
  /\ run[r].pc = "wait"
  /\ run[r].poll.elapsed >= WaitTimeout
  /\ PipelineCatch(r)
  /\ UNCHANGED << sessions, rows, summaries, files, hnd, lastDone, nCompleted,
                  lastCompleted, events, geminiKey, live >>

\* The server at the call of waitForFileReady: the session was started, got
\* one chunk and was ended, and the chain has copied the chunk to
\* combined.webm.
WaitInit ==
  LET chunk == [ idx |-> 0, ext |-> "webm", bytes |-> << EBML, "aaaa" >> ]
      h == [ IdleHandler EXCEPT !.kind = "end_session", !.sid = 1 ] IN
  /\ sessions = [ s \in SessionIds |->
                    IF s = 1 THEN [ state |-> "processing", endedAt |-> 1 ]
                    ELSE NoSession ]
  /\ rows = << [ sessionId |-> 1, chunkIndex |-> 0, speaker |-> "Alice",
                 text |-> 0 ] >>
  /\ summaries = <<>>
  /\ files = [ s \in SessionIds |->
                 IF s = 1
                   THEN [ chunks |-> { chunk },
                          combined |-> [ kind |-> "copy",
                                         bytes |-> chunk.bytes ],
                          manifest |-> FALSE ]
                   ELSE EmptyDir ]
  /\ hnd = [ i \in Slots |-> IdleHandler ]
  /\ run = [ r \in RunIds |->
               IF r = 1
                 THEN [ IdleRun EXCEPT !.sid = 1, !.pc = "wait",
                          !.paths = << [ idx |-> 0, ext |-> "webm",
                                         numeric |-> TRUE ] >> ]
                 ELSE IdleRun ]
  /\ lastDone = [ Acked(h, "recording") EXCEPT
                    !.changed = TRUE, !.statusEmitted = TRUE,
                    !.spawned = TRUE ]
  /\ nCompleted = [ s \in SessionIds |-> 0 ]
  /\ lastCompleted = NoCompleted
  /\ nStatusCompleted = [ s \in SessionIds |-> 0 ]
  /\ nPipelineError = [ s \in SessionIds |-> 0 ]
  /\ events = 3
  /\ geminiKey \in BOOLEAN
  /\ now = ServerStart
  /\ nextSweep = ServerStart + SweepInterval
  /\ conn = [ c \in ConnIds |-> NoConn ]
  /\ lastBeat = NoBeat

\* waitForFileReady against every sequence of stat results
WaitNext ==
  \/ \E r \in RunIds : PollStat(r)
  \/ \E r \in RunIds : PollMissing(r)
  \/ \E r \in RunIds : PollTimeout(r)

WaitSpec == WaitInit /\ [][WaitNext]_vars

\* ------------------------------------------ uploads racing with the end
\* TEST_USER_ID
TestUserId == 1

\* well-formed audio_chunk payloads (WebM bytes) of the first two chunks of
\* the first session
RacePayloads == [ sessionId : { 1 }, chunkIndex : { 0, 2 },
                  audioData : [ isString : { TRUE },
                                bytes : { << EBML, "aaaa" >> } ],
                  speaker : { "Alice" } ]

\* one session is started, its first two chunks are uploaded and it is
\* ended, the handlers interleaving at their awaits in every way
RaceNext ==
  \/ StartSession(TestUserId)
  \/ \E payload \in RacePayloads : ReceiveChunk(payload)
  \/ ReceiveControl("end_session", 1)
  \/ \E i \in Slots : ChunkFind(i)
  \/ \E i \in Slots : ChunkSave(i)
  \/ \E i \in Slots : ChunkCreate(i)
  \/ \E i \in Slots : EndSession(i)
  \/ \E r \in RunIds : ListChunks(r)
  \/ \E r \in RunIds : concatenateWebMChunks(r)
  \/ \E r \in RunIds : waitForFileReady(r)
  \/ \E r \in RunIds : FindFirstChunk(r)
  \/ \E r \in RunIds : processTranscription(r)
  \/ \E r \in RunIds : aggregateTranscript(r)
  \/ \E r \in RunIds : generateSummary(r)
  \/ \E r \in RunIds : saveSummary(r)
  \/ \E r \in RunIds : CompleteSession(r)
  \/ \E r \in RunIds : ForceCompleted(r)

RaceSpec == Init /\ [][RaceNext]_vars

\* ------------------------------------------------- the test client's run
\* testSocketEvents: start_session, audio_chunk 0, pause, resume,
\* audio_chunk 1, end_session, each emitted when the previous was acked
Script == << "start_session", "audio_chunk", "pause", "resume",
             "audio_chunk", "end_session" >>

\* chunkIndex of the audio_chunk emitted at a position of the script
ScriptIndex(pos) == IF pos = 2 THEN 0 ELSE 1

\* The server of the test: one client connected, the database holding no
\* session or one started earlier.
HappyInit ==
  /\ sessions \in { [ s \in SessionIds |-> NoSession ],
                     [ s \in SessionIds |->
                         IF s = 1 THEN [ state |-> "recording", endedAt |-> 0 ]
                         ELSE NoSession ] }
  /\ rows = <<>>
  /\ summaries = <<>>
  /\ files = [ s \in SessionIds |-> EmptyDir ]
  /\ hnd = [ i \in Slots |-> IdleHandler ]
  /\ run = [ r \in RunIds |-> IdleRun ]
  /\ lastDone = NoOutcome
  /\ nCompleted = [ s \in SessionIds |-> 0 ]
  /\ lastCompleted = NoCompleted
  /\ nStatusCompleted = [ s \in SessionIds |-> 0 ]
  /\ nPipelineError = [ s \in SessionIds |-> 0 ]
  /\ events = 0
  /\ geminiKey \in BOOLEAN
  /\ now = ServerStart
  /\ nextSweep = ServerStart + SweepInterval
  /\ conn = [ c \in ConnIds |->
               [ open |-> TRUE, lastHeartbeat |-> ServerStart,
                 forced |-> FALSE ] ]
  /\ lastBeat = NoBeat

\* The test client emits the next event of its script once the previous one
\* was acked; the server parses it and the handler runs to its first await.
\* sessionId is the id the start_session ack returned.
TestClientEmit ==
  LET pos == events + 1
      sessionId == lastDone.sid IN
  /\ conn[1].open
  /\ pos <= Len(Script)
  /\ \A i \in Slots : hnd[i].pc = "idle"
  /\ pos > 1 => lastDone.kind = Script[pos - 1]
  /\ IF Script[pos] = "start_session"
       THEN StartSession(TestUserId)
     ELSE IF Script[pos] = "audio_chunk"
       THEN /\ \E bytes \in Buffers \ { <<>> } :
                 LET payload == [ sessionId |-> sessionId,
                                  chunkIndex |-> 2 * ScriptIndex(pos),
                                  audioData |-> [ isString |-> TRUE,
                                                  bytes |-> bytes ],
                                  speaker |-> "Alice" ] IN
                 /\ AudioChunkSchema(payload)
                 /\ hnd' = [ hnd EXCEPT ![LowestFree(FreeSlots)] =
                      [ IdleHandler EXCEPT !.kind = "audio_chunk",
                                           !.sid = payload.sessionId,
                                           !.chunkIndex =
                                              payload.chunkIndex \div 2,
                                           !.audioData =
                                              payload.audioData.bytes,
                                           !.speaker = payload.speaker,
                                           !.pc = "find" ] ]
            /\ events' = events + 1
            /\ UNCHANGED << sessions, rows, summaries, files, run, lastDone,
                            nCompleted, lastCompleted, nStatusCompleted,
                            nPipelineError, geminiKey, live >>
       ELSE /\ ControlSchema(Script[pos], sessionId)
            /\ hnd' = [ hnd EXCEPT ![LowestFree(FreeSlots)] =
                          [ IdleHandler EXCEPT !.kind = Script[pos],
                                               !.sid = sessionId,
                                               !.pc = "update" ] ]
            /\ events' = events + 1
            /\ UNCHANGED << sessions, rows, summaries, files, run, lastDone,
                            nCompleted, lastCompleted, nStatusCompleted,
                            nPipelineError, geminiKey, live >>

\* a step of finalize chain r in which no call into the file system, the
\* store or ffmpeg fails
NoFault(r) ==
  /\ nPipelineError' = nPipelineError
  /\ run'[r].pc # "force"

\* The test client's run on a server whose file system, store and ffmpeg
\* work; the client may close the socket, and the monitor closes it once
\* it timed out (the test client sends no heartbeat).
HappyNext ==
  \/ TestClientEmit
  \/ \E i \in Slots : ChunkFind(i)
  \/ \E i \in Slots : ChunkSave(i) /\ hnd'[i].pc = "create"
  \/ \E i \in Slots : ChunkCreate(i) /\ lastDone'.rowCreated
  \/ \E i \in Slots : Pause(i)
  \/ \E i \in Slots : Resume(i)
  \/ \E i \in Slots : EndSession(i)
  \/ \E r \in RunIds : ListChunks(r) /\ NoFault(r)
  \/ \E r \in RunIds : concatenateWebMChunks(r) /\ NoFault(r)
  \/ \E r \in RunIds : waitForFileReady(r) /\ NoFault(r)
  \/ \E r \in RunIds : FindFirstChunk(r) /\ NoFault(r)
  \/ \E r \in RunIds : processTranscription(r)
  \/ \E r \in RunIds : aggregateTranscript(r) /\ NoFault(r)
  \/ \E r \in RunIds : generateSummary(r)
  \/ \E r \in RunIds : saveSummary(r) /\ NoFault(r)
  \/ \E r \in RunIds : CompleteSession(r)
  \/ \E c \in ConnIds : ClientDisconnect(c)
  \/ Sweep
  \/ Tick

\* the awaited calls of a finalize chain return: its continuation runs
HappyChain ==
  \E r \in RunIds :
    /\ \/ ListChunks(r) \/ concatenateWebMChunks(r) \/ waitForFileReady(r)
       \/ FindFirstChunk(r) \/ processTranscription(r)
       \/ aggregateTranscript(r) \/ generateSummary(r) \/ saveSummary(r)
       \/ CompleteSession(r)
    /\ NoFault(r)

HappySpec == HappyInit /\ [][HappyNext]_vars /\ WF_vars(HappyChain)

\* ---------------------------------------------------------------- claims
\* the session whose finalize chain r ends in this step
Terminates(r) == run[r].pc # "idle" /\ run'[r].pc = "idle"

RunsOf(sid) == { r \in RunIds : run[r].pc # "idle" /\ run[r].sid = sid }

Edges == { << "recording", "paused" >>, << "recording", "processing" >>,
           << "paused", "recording" >>, << "paused", "processing" >>,
           << "processing", "completed" >> }

\* C1: every change of a session's persisted state follows an edge of the
\* graph Recording->{Paused,Processing}, Paused->{Recording,Processing},
\* Processing->{Completed}; nothing leaves Completed.
C1_StateFollowsGraph ==
  [][ \A s \in SessionIds :
        (sessions[s].state # "none" /\ sessions'[s].state # sessions[s].state)
          => << sessions[s].state, sessions'[s].state >> \in Edges ]_vars

\* C2: once end has been accepted the session becomes Completed whichever
\* step of the finalize chain fails: when a finalize chain has run to its
\* end, on any path, the persisted state of its session is Completed.
C2_FinalizeEndsCompleted ==
  [][ \A r \in RunIds :
        Terminates(r) => sessions'[run[r].sid].state = "completed" ]_vars

\* C3: a session on which end was accepted gets exactly one 'completed'
\* notification: once no finalize chain of the session is running any more,
\* exactly one has been emitted for it.
C3_ExactlyOneCompleted ==
  \A s \in SessionIds :
    (sessions[s].endedAt > 0 /\ RunsOf(s) = {}) => nCompleted[s] = 1

\* C4: a chunk event that finds its session Paused, Processing or Completed
\* is acked with success:false, writes no chunk file and creates no chunk
\* row; only a handler that found the session Recording goes on to write.
C4_ChunkRejectedUnlessRecording ==
  /\ \A i \in Slots :
       (hnd[i].kind = "audio_chunk" /\ hnd[i].pc \in { "save", "create" })
         => hnd[i].pre = "recording"
  /\ (lastDone.kind = "audio_chunk"
        /\ lastDone.pre \in { "paused", "processing", "completed" })
       => (lastDone.result = "fail" /\ ~lastDone.wrote
             /\ ~lastDone.rowCreated)

\* C4 witness: a chunk sent to a paused session has been rejected.
C4_Witness ==
  /\ lastDone.kind = "audio_chunk"
  /\ lastDone.pre = "paused"
  /\ lastDone.result = "fail"

\* C5: when an upload of a (sessionId, chunkIndex) has been acknowledged,
\* also a repeated one, exactly one chunk row and one stored file exist for
\* that index.
C5_OneRowPerIndex ==
  (lastDone.kind = "audio_chunk" /\ lastDone.result = "ok")
    => /\ Cardinality(RowsFor(lastDone.sid, lastDone.chunkIndex)) = 1
       /\ Cardinality({ f \in files[lastDone.sid].chunks :
                          f.idx = lastDone.chunkIndex }) = 1

\* C6: an end that finds the session Processing or Completed is rejected
\* with a failure ack, changes neither state nor endedAt and starts no
\* finalize chain.
C6_EndOnlyFromRecordingOrPaused ==
  (lastDone.kind = "end_session"
     /\ lastDone.pre \in { "processing", "completed" })
    => (lastDone.result = "fail" /\ ~lastDone.changed /\ ~lastDone.spawned)

\* C7: a pause that finds the session not Recording, or a resume that finds
\* it not Paused, is acked with success:false, leaves the persisted state
\* alone and emits no status notification.
C7_PauseResumeChecked ==
  ( \/ (lastDone.kind = "pause" /\ lastDone.pre \notin { "recording", "invalid" })
    \/ (lastDone.kind = "resume" /\ lastDone.pre \notin { "paused", "invalid" }) )
    => (lastDone.result = "fail" /\ ~lastDone.changed
          /\ ~lastDone.statusEmitted)

\* C8: of two state-changing events of one session that are processed
\* concurrently at most one succeeds: a handler that was still suspended
\* while another transition of its session succeeded is rejected.
C8_ConcurrentTransitionsExclude ==
  (lastDone.kind \in StateChanging /\ lastDone.raced)
    => lastDone.result = "fail"

\* C9: when the summarization backend failed in a finalize chain (and the
\* store accepted its writes), then at the end of the session's last chain
\* the session has exactly one 'completed' notification and a Summary row
\* that is the fallback: the marker and at most PreviewLimit characters of
\* the transcript.
C9_BackendFailureGivesFallback ==
  [][ \A r \in RunIds :
        ( /\ Terminates(r)
          /\ run[r].sumKind = "fallback"
          /\ run[r].saveErr # "db"
          /\ RunsOf(run[r].sid) = { r } )
        => /\ nCompleted'[run[r].sid] = 1
           /\ Cardinality(SummaryIds(run[r].sid)) = 1
           /\ \A k \in SummaryIds(run[r].sid) :
                /\ summaries[k].kind = "fallback"
                /\ summaries[k].previewLen <= PreviewLimit ]_vars

\* C10: when a finalize chain ends by a failure, its session is Completed and
\* an error notification and a status notification with status completed
\* have been emitted.
C10_FailureForcesCompleted ==
  [][ \A r \in RunIds :
        (Terminates(r) /\ run[r].pc # "complete")
        => /\ sessions'[run[r].sid].state = "completed"
           /\ nPipelineError'[run[r].sid] = nPipelineError[run[r].sid] + 1
           /\ nStatusCompleted'[run[r].sid] = nStatusCompleted[run[r].sid] + 1
    ]_vars

\* C11: a transcription failure in a finalize chain is not thrown: the
\* chain goes on to the summary stage, and when it ends (the store having
\* accepted its writes) a Summary row exists, the session is Completed and
\* the status notification 'completed' has been emitted; once the session's
\* last chain has ended, so has its 'completed' notification.
C11_TranscriptionFailureContinues ==
  [][ \A r \in RunIds :
        /\ (run[r].pc = "transcribe" /\ run'[r] # run[r])
             => run'[r].pc = "aggregate"
        /\ ( /\ Terminates(r)
             /\ run[r].transcribed = "failed"
             /\ run[r].saveErr # "db" )
           => /\ sessions'[run[r].sid].state = "completed"
              /\ SummaryIds(run[r].sid) # {}
              /\ nStatusCompleted'[run[r].sid] =
                   nStatusCompleted[run[r].sid] + 1
              /\ RunsOf(run[r].sid) = { r } => nCompleted'[run[r].sid] = 1
    ]_vars

\* C11 witness: a session whose transcription failed (its rows still have
\* the empty text) is Completed with a Summary row and one 'completed'.
C11_Witness ==
  \E s \in SessionIds :
    /\ sessions[s].state = "completed"
    /\ RowIds(s) # {} /\ \A k \in RowIds(s) : rows[k].text = 0
    /\ SummaryIds(s) # {}
    /\ nCompleted[s] = 1

\* C12: a session whose persisted state is Completed has a Summary row.
C12_CompletedHasSummary ==
  \A s \in SessionIds :
    sessions[s].state = "completed" => SummaryIds(s) # {}

\* C13: each session has at most one Summary row, also when end is sent
\* again or two finalize chains of the session run concurrently.
C13_AtMostOneSummary ==
  \A s \in SessionIds : Cardinality(SummaryIds(s)) <= 1

\* C13 witness: a second finalize chain of a session that has its Summary
\* row was refused by the unique index.
C13_Witness ==
  \E r \in RunIds :
    /\ run[r].pc = "force" /\ run[r].saveErr = "unique"
    /\ Cardinality(SummaryIds(run[r].sid)) = 1

C16_EndedAtWrittenOnce ==
  \A s \in SessionIds : sessions[s].endedAt <= 1

\* C17: a sweep closes every open connection whose last heartbeat is more
\* than HeartbeatTimeout old, so such a connection stays open at most until
\* the sweep that follows; and no step of a connection (connect, heartbeat,
\* disconnect), of the sweep or of the clock changes a persisted session,
\* its rows, Summary, files or finalize chains.
C17_SweepDisconnectsSessionsUntouched ==
  /\ [][ nextSweep' # nextSweep
           => \A c \in ConnIds :
                (conn[c].open /\ now - conn[c].lastHeartbeat > HeartbeatTimeout)
                  => (~conn'[c].open /\ conn'[c].forced) ]_vars
     /\ [](\A c \in ConnIds :
             (conn[c].open /\ now - conn[c].lastHeartbeat > HeartbeatTimeout)
               => (nextSweep - SweepInterval) - conn[c].lastHeartbeat
                    <= HeartbeatTimeout)
     /\ [][ live' # live
           => UNCHANGED << sessions, rows, summaries, files, run >> ]_vars

\* C17 witness: a connection has been closed by the sweep while a session is
\* Recording.
C17_Witness ==
  /\ \E c \in ConnIds : conn[c].forced /\ ~conn[c].open
  /\ \E s \in SessionIds : sessions[s].state = "recording"

\* C18: a heartbeat that carries a client timestamp, with or without a
\* session id, is acked with success and refreshes the last-seen time.
C18_HeartbeatAckedAndRefreshes ==
  lastBeat.conn # 0 => (lastBeat.ack = "ok" /\ lastBeat.refreshed)

\* C19: every handled client signal is answered either by ack success and
\* no error notification, or by ack failure and an error notification.
C19_AckContract ==
  /\ lastDone.kind # "none"
       => \/ (lastDone.result = "ok" /\ ~lastDone.errorEmitted)
          \/ (lastDone.result = "fail" /\ lastDone.errorEmitted)
  /\ lastBeat.conn # 0
       => \/ (lastBeat.ack = "ok" /\ ~lastBeat.errorEmitted)
          \/ (lastBeat.ack = "fail" /\ lastBeat.errorEmitted)

\* C20: a payload that fails its schema is answered by the catch block and
\* nothing else: no row, no file, no state change, no finalize chain; so
\* no handler in flight, no row and no file carries an empty session id or
\* a negative chunk index.
C20_InvalidPayloadNoEffect ==
  /\ lastDone.pre = "invalid"
       => /\ lastDone.result = "fail" /\ lastDone.errorEmitted
          /\ ~lastDone.wrote /\ ~lastDone.rowCreated
          /\ ~lastDone.changed /\ ~lastDone.spawned
  /\ \A i \in Slots :
       hnd[i].pc # "idle" => (hnd[i].sid # 0 /\ hnd[i].chunkIndex >= 0)
  /\ \A k \in 1..Len(rows) : rows[k].sessionId # 0 /\ rows[k].chunkIndex >= 0
  /\ \A s \in SessionIds : \A f \in files[s].chunks : f.idx >= 0

\* C20 witness: an audio_chunk payload was refused by its schema while a
\* session is Recording.
C20_Witness ==
  /\ lastDone.kind = "audio_chunk" /\ lastDone.pre = "invalid"
  /\ \E s \in SessionIds : sessions[s].state = "recording"


C24_DirectoryReclaimed ==
  \A s \in SessionIds :
    (sessions[s].state = "completed" /\ nCompleted[s] >= 1 /\ RunsOf(s) = {})
      => files[s] = EmptyDir

\* C25: aggregating exactly one chunk copies it: the combined file holds the
\* bytes of that chunk file, and the remuxer (its list file and its output)
\* is not involved.
C25_SingleChunkCopied ==
  [][ \A r \in RunIds :
        (run[r].pc = "concat" /\ Len(run[r].paths) = 1 /\ run'[r].pc = "wait")
        => LET dir == files[run[r].sid]
               out == files'[run[r].sid] IN
           /\ out.combined.kind = "copy"
           /\ \E f \in dir.chunks :
                /\ f.idx = run[r].paths[1].idx
                /\ f.ext = run[r].paths[1].ext
                /\ out.combined.bytes = f.bytes
           /\ out.manifest = dir.manifest
           /\ out.chunks = dir.chunks ]_vars

\* a chain that copied its single chunk and waits for the combined file
C25_Witness ==
  \E r \in RunIds :
    /\ run[r].pc = "wait"
    /\ Len(run[r].paths) = 1
    /\ files[run[r].sid].combined.kind = "copy"
    /\ files[run[r].sid].combined.bytes # <<>>

\* C26: aggregating an empty chunk list is rejected with an error and does
\* no I/O: the chain ends in its catch, no list file and no combined file
\* is written.
C26_EmptyListRejected ==
  [][ \A r \in RunIds :
        ( /\ run'[r] # run[r]
          /\ \/ run[r].pc = "list" /\ files[run[r].sid].chunks = {}
             \/ run[r].pc = "concat" /\ Len(run[r].paths) = 0 )
        => /\ run'[r] = IdleRun
           /\ nPipelineError'[run[r].sid] = nPipelineError[run[r].sid] + 1
           /\ files' = files ]_vars

\* a session ended without chunk files: its chain failed, nothing written
C26_Witness ==
  \E s \in SessionIds :
    /\ sessions[s].state = "processing"
    /\ nPipelineError[s] = 1
    /\ RunsOf(s) = {}
    /\ files[s] = EmptyDir

\* C27: the chunk listing a chain works on is in strictly ascending order
\* of chunk index.
C27_ListingStrictlyAscending ==
  \A r \in RunIds :
    \A a, b \in 1..Len(run[r].paths) :
      a < b => run[r].paths[a].idx < run[r].paths[b].idx

\* C28: with no summarization backend configured a finalize chain that
\* reached the summary stage (the store accepting its writes) ends with a
\* Summary row, the session Completed, a 'completed' event and no error
\* notification.
C28_StubSummaryCompletes ==
  [][ \A r \in RunIds :
        ( /\ Terminates(r)
          /\ run[r].sumKind = "stub"
          /\ run[r].saveErr # "db" )
        => /\ SummaryIds(run[r].sid) # {}
           /\ sessions'[run[r].sid].state = "completed"
           /\ nCompleted'[run[r].sid] = nCompleted[run[r].sid] + 1
           /\ nPipelineError'[run[r].sid] = nPipelineError[run[r].sid] ]_vars

\* C29: a chunk whose byte write failed is acked with failure, gets no row
\* and changes neither the session nor the stores; every chunk row has a
\* chunk file of its index in its session's directory.
C29_WriteFailureLeavesNoRow ==
  /\ [](\A k \in 1..Len(rows) :
          \E f \in files[rows[k].sessionId].chunks :
            f.idx = rows[k].chunkIndex)
  /\ [][ \A i \in Slots :
           (hnd[i].pc = "save" /\ hnd'[i].pc = "idle")
           => /\ lastDone'.result = "fail"
              /\ lastDone'.errorEmitted
              /\ ~lastDone'.rowCreated
              /\ rows' = rows /\ sessions' = sessions /\ files' = files
       ]_vars

\* a chunk was refused because its bytes could not be written, the session
\* is still Recording and has no row of that index: a retry is accepted
C29_Witness ==
  /\ lastDone.kind = "audio_chunk"
  /\ lastDone.result = "fail"
  /\ lastDone.pre = "recording"
  /\ ~lastDone.wrote
  /\ sessions[lastDone.sid].state = "recording"
  /\ RowsFor(lastDone.sid, lastDone.chunkIndex) = {}


\* C21: in the test client's run start_session is acked with success and a
\* session id no session had, that session being Recording and the other
\* sessions untouched; every event of the script is acked with success; the
\* ack and the 'session:status' processing of end_session are sent with the
\* finalize chain at its first step; and the end is followed by exactly one
\* 'completed' event of the session, carrying the id of its Summary row and
\* a download reference, the session being Completed with two chunk rows.
C21_HappyPath ==
  /\ [][ (lastDone'.kind = "start_session" /\ lastDone' # lastDone)
         => /\ lastDone'.result = "ok"
            /\ sessions[lastDone'.sid].state = "none"
            /\ sessions'[lastDone'.sid].state = "recording"
            /\ \A s \in SessionIds \ { lastDone'.sid } :
                 sessions'[s] = sessions[s] ]_vars
  /\ [](lastDone.kind # "none" => lastDone.result = "ok")
  /\ [][ (lastDone'.kind = "end_session" /\ lastDone' # lastDone)
         => /\ lastDone'.statusEmitted
            /\ sessions'[lastDone'.sid].state = "processing"
            /\ nCompleted'[lastDone'.sid] = 0
            /\ \E r \in RunIds :
                 /\ run[r].pc = "idle"
                 /\ run'[r].pc = "list"
                 /\ run'[r].sid = lastDone'.sid ]_vars
  /\ [](\A s \in SessionIds : nCompleted[s] <= 1)
  /\ \A s \in SessionIds :
       (lastDone.kind = "end_session" /\ lastDone.sid = s)
         ~> ( /\ nCompleted[s] = 1
              /\ lastCompleted.sessionId = s
              /\ lastCompleted.summaryId \in SummaryIds(s)
              /\ lastCompleted.downloadUrl = s
              /\ sessions[s].state = "completed"
              /\ Cardinality(RowIds(s)) = 2 )

\* the script ran to its end on a second session: 'completed' emitted once
C21_Witness ==
  /\ lastDone.kind = "end_session"
  /\ lastDone.sid = 2
  /\ sessions[1].state = "recording"
  /\ sessions[2].state = "completed"
  /\ nCompleted[2] = 1
  /\ lastCompleted.summaryId \in SummaryIds(2)
  /\ Cardinality(RowIds(2)) = 2
  /\ { f.idx : f \in files[2].chunks } = { 0, 1 }

\* C23: when the connection that sent end_session is closed, by the client
\* or by the monitor, while the finalize chain runs, the chain is left
\* alone and runs to its end: a Summary row is persisted and the session
\* is Completed.
C23_FinalizeSurvivesDisconnect ==
  /\ [][ (\E c \in ConnIds : conn[c].open /\ ~conn'[c].open)
         => run' = run ]_vars
  /\ \A s \in SessionIds :
       (sessions[s].state = "processing" /\ ~conn[1].open)
         ~> (sessions[s].state = "completed" /\ SummaryIds(s) # {})

\* the monitor closed the connection while a finalize chain was running
C23_Witness ==
  \E r \in RunIds :
    /\ run[r].pc \notin { "idle", "list" }
    /\ ~conn[1].open
    /\ conn[1].forced
    /\ sessions[run[r].sid].state = "processing"


\* the rows and the Summary rows of a session, in the order of insertion
RowsOf(table, sid) == SelectSeq(table, LAMBDA row : row.sessionId = sid)

\* C30: a step changes the persisted state, the chunk rows, the Summary or
\* the files of a session only if it is the start of that session or a
\* step of a handler or of a finalize chain of that session: what happens
\* to one session, failures included, leaves the others as they are.
C30_SessionsIsolated ==
  [][ \A b \in SessionIds :
        ( \/ sessions'[b] # sessions[b]
          \/ RowsOf(rows', b) # RowsOf(rows, b)
          \/ RowsOf(summaries', b) # RowsOf(summaries, b)
          \/ files'[b] # files[b] )
        => \/ sessions[b].state = "none"
           \/ \E i \in Slots : hnd[i].sid = b /\ hnd'[i] # hnd[i]
           \/ \E r \in RunIds : run[r].sid = b /\ run'[r] # run[r] ]_vars

\* the finalize chain of one session failed, leaving it Processing with its
\* chunk file, and another session with a chunk of its own was finalized
\* to Completed with a Summary row and one 'completed' event
C30_Witness ==
  \E a, b \in SessionIds :
    /\ a # b
    /\ nPipelineError[a] = 1
    /\ sessions[a].state = "processing"
    /\ files[a].chunks # {}
    /\ RunsOf(a) = {}
    /\ sessions[b].state = "completed"
    /\ nCompleted[b] = 1
    /\ nPipelineError[b] = 0
    /\ SummaryIds(b) # {}
    /\ files[b].chunks # {}


\* C32: of the chunk rows of a session only one with the lowest chunkIndex
\* ever holds text: the whole-session transcript is in that row and the
\* text of every other row of the session is empty, so the joined texts
\* hold the transcript once.
C32_TranscriptInFirstRowOnly ==
  \A s \in SessionIds :
    /\ Cardinality({ k \in RowIds(s) : rows[k].text # 0 }) <= 1
    /\ \A k \in RowIds(s) :
         rows[k].text # 0
           => \A j \in RowIds(s) : rows[k].chunkIndex <= rows[j].chunkIndex

\* C33: after a remux of more than one chunk, succeeded or failed, the
\* concat manifest is gone from the session's directory; a zero-byte output
\* ends the chain in its catch.
C33_ManifestRemoved ==
  /\ [](\A s \in SessionIds : ~files[s].manifest)
  /\ [][ \A r \in RunIds :
           ( /\ run[r].pc = "concat"
             /\ run'[r] # run[r]
             /\ files'[run[r].sid].combined.kind = "remux"
             /\ files'[run[r].sid].combined.bytes = <<>> )
           => run'[r] = IdleRun ]_vars

\* C35: when a chunk upload is acked with success, every finalize chain of
\* its session that has listed the chunk files has the file of that chunk
\* in its listing: the chunk is among the files the chain aggregates.
C35_AckedChunkIsAggregated ==
  [][ \A i \in Slots :
        ( /\ hnd[i].kind = "audio_chunk"
          /\ hnd[i].pc = "create"
          /\ hnd'[i].pc = "idle"
          /\ lastDone'.result = "ok" )
        => \A r \in RunsOf(hnd[i].sid) :
             \/ run[r].pc = "list"
             \/ \E a \in 1..Len(run[r].paths) :
                  /\ run[r].paths[a].idx = hnd[i].chunkIndex
                  /\ run[r].paths[a].ext = detectAudioFormat(hnd[i].audioData)
    ]_vars

\* C36: a 'completed' event or a 'session:status' completed of a session is
\* emitted only with the session's persisted state being completed.
C36_CompletedEmittedWhenPersisted ==
  [][ \A s \in SessionIds :
        (nCompleted'[s] # nCompleted[s]
           \/ nStatusCompleted'[s] # nStatusCompleted[s])
        => sessions'[s].state = "completed" ]_vars

\* C38: the transcription update of a finalize chain changes the text of
\* the first chunk's row only: its speaker, chunkIndex and session stay.
C38_TranscriptionKeepsSpeaker ==
  [][ \A r \in RunIds :
        (run[r].pc = "transcribe" /\ run'[r] # run[r])
        => /\ Len(rows') = Len(rows)
           /\ \A k \in 1..Len(rows) :
                /\ rows'[k].speaker = rows[k].speaker
                /\ rows'[k].chunkIndex = rows[k].chunkIndex
                /\ rows'[k].sessionId = rows[k].sessionId ]_vars


\* C34: a chunk is stored in the directory of its own session under the
\* name <chunkIndex>.<extension>, the extension being mp4 when bytes 4..7
\* of the decoded data are 'ftyp' and webm otherwise, the EBML magic being
\* there or not; nothing else of the payload enters the name, and no other
\* directory is written.
C34_ExtensionFromBytes ==
  [][ \A i \in Slots :
        (hnd[i].pc = "save" /\ hnd'[i].pc = "create")
        => LET h == hnd[i]
               ext == IF Len(h.audioData) >= 2 /\ h.audioData[2] = "ftyp"
                        THEN "mp4" ELSE "webm"
               file == [ idx |-> h.chunkIndex, ext |-> ext,
                         bytes |-> h.audioData ]
           IN  /\ file \in files'[h.sid].chunks
               /\ \A f \in files'[h.sid].chunks :
                    f = file \/ f \in files[h.sid].chunks
               /\ files'[h.sid].combined = files[h.sid].combined
               /\ files'[h.sid].manifest = files[h.sid].manifest
               /\ \A s \in SessionIds \ { h.sid } : files'[s] = files[s]
    ]_vars

\* a session holds a chunk stored as webm although its bytes do not start
\* with the EBML magic, and a chunk stored as mp4
C34_Witness ==
  \E s \in SessionIds :
    /\ \E f \in files[s].chunks :
         f.ext = "webm" /\ (Len(f.bytes) = 0 \/ f.bytes[1] # EBML)
    /\ \E f \in files[s].chunks : f.ext = "mp4" /\ f.bytes[2] = FTYP


\* C37: the listing a finalize chain gets holds the chunk files of the
\* session's directory and nothing else, combined.webm and the concat list
\* being in the directory or not, and no step of a chain adds or removes a
\* chunk file: a second run of the chain on the session aggregates the
\* chunk files the first run did.
C37_ListingExcludesArtifacts ==
  /\ [][ \A r \in RunIds :
           (run[r].pc = "list" /\ run'[r].pc = "concat")
           => LET listed == { run'[r].paths[a] : a \in 1..Len(run'[r].paths) }
              IN  /\ { << n.idx, n.ext >> : n \in listed }
                       = { << f.idx, f.ext >> : f \in files[run[r].sid].chunks }
                  /\ Cardinality(listed) = Len(run'[r].paths)
                  /\ \A n \in listed : n.numeric ]_vars
  /\ [][ \A r \in RunIds :
           (run[r].pc # "idle" /\ run'[r] # run[r])
           => files'[run[r].sid].chunks = files[run[r].sid].chunks ]_vars

\* a second chain of a session has listed the directory that holds the
\* combined file of the first
C37_Witness ==
  \E r \in RunIds :
    /\ run[r].pc = "concat"
    /\ files[run[r].sid].combined.kind # "none"
    /\ nStatusCompleted[run[r].sid] + Cardinality(RunsOf(run[r].sid)) >= 2
    /\ Len(run[r].paths) = Cardinality(files[run[r].sid].chunks)


\* C31: waitForFileReady returns only when the last StableChecks + 1 stats
\* that resolved reported one positive size (StableChecks stable comparisons
\* in a row); a stat that fails is followed by another pass; the loop is
\* left by the throw exactly when the timeout has elapsed, and the number
\* of passes is bounded.
C31_WaitStableOrTimeout ==
  /\ [][ \A r \in RunIds :
           (run[r].pc = "wait" /\ run'[r].pc = "findFirst")
           => LET seen == run'[r].poll.seen IN
              /\ Len(seen) = StableChecks + 1
              /\ \A a \in 1..Len(seen) :
                   seen[a] = run'[r].readySize /\ seen[a] > 0
              /\ run[r].poll.elapsed < WaitTimeout ]_vars
  /\ [][ \A r \in RunIds :
           (run[r].pc = "wait" /\ run'[r] # run[r])
           => IF run[r].poll.elapsed >= WaitTimeout
                THEN /\ run'[r] = IdleRun
                     /\ nPipelineError'[run[r].sid]
                          = nPipelineError[run[r].sid] + 1
                ELSE /\ run'[r].pc \in { "wait", "findFirst" }
                     /\ run'[r].poll.polls = run[r].poll.polls + 1
                     /\ run'[r].pc = "wait"
                          => run'[r].poll.elapsed
                               >= run[r].poll.elapsed + RetryInterval ]_vars
  /\ [](\A r \in RunIds :
          run[r].poll.polls <= (WaitTimeout \div RetryInterval) + 1)

\* the wait returned although one stat in between found no file: more
\* passes were made than sizes compared
C31_Witness ==
  \E r \in RunIds :
    /\ run[r].pc = "findFirst"
    /\ run[r].readySize > 0
    /\ run[r].poll.polls > StableChecks + 1
    /\ run[r].poll.elapsed < 8 * PollInterval

====
